---------------------------- MODULE Spec2Model ----------------------------
(***************************************************************************)
(* The MOF UV-unwrapper wrapper (src/MOF/__init__.py): the settings group  *)
(* MOFProperties, AutoUVOperator.poll, AutoUVOperator.execute and the      *)
(* remove_temp timer callback, as a state machine over the host scene, the *)
(* add-on preferences and the temporary files.                             *)
(*                                                                         *)
(* The host application and the external tool are the environment: the     *)
(* outcome of the export, of the subprocess and of the import is a         *)
(* nondeterministic choice made inside execute.  The host's mode_set is    *)
(* taken to set the interaction mode, os.remove / shutil.rmtree to delete. *)
(***************************************************************************)
EXTENDS Integers, Sequences, FiniteSets, TLC

VARIABLES
    platform,       \* os.name
    objects,        \* names in bpy.data.objects
    otype,          \* obj.type of every object
    selected,       \* context.selected_objects
    active,         \* context.active_object, NoObject for None
    mode,           \* the interaction mode (context.active_object.mode)
    matrix_world,   \* obj.matrix_world of every object
    uv,             \* obj.data.uv_layers.active.data of every object
    seams,          \* the seam edges of the mesh data
    path_set,       \* prefs.executable_path is not empty
    zip_exists,     \* os.path.exists(zip_path)
    zip_valid,      \* zipfile.ZipFile(zip_path) opens
    zip_names,      \* zf.namelist()
    extract_dirs,   \* number of brender_mof_* directories on disk
    files,          \* the OBJ files in bpy.app.tempdir
    timers,         \* temp objects with a registered remove_temp timer
    props,          \* context.scene.mof_properties
    polled,         \* what poll returned for the present state, if called
    ret,            \* the last execute: what it returned, reported and did
    pre,            \* the state in which the last execute was called, and
                    \* what poll returns in it
    last            \* the operation that ran last

vars == << platform, objects, otype, selected, active, mode, matrix_world, uv,
           seams, path_set, zip_exists, zip_valid, zip_names, extract_dirs,
           files, timers, props, polled, ret, pre, last >>

---------------------------------------------------------------------------
(* Bounds of the model. *)

\* uv coordinates the tool may write are 0 .. MaxUV
MaxUV == 2
\* the meshes have at most MaxLoops face corners
MaxLoops == 2
\* at most MaxChanged settings differ from their defaults
MaxChanged == 1

---------------------------------------------------------------------------
(* Text.  A file name is a sequence of characters, so that lower() and     *)
(* endswith() are computed; an argument of the command line is a string.   *)

Upper == <<"A","B","C","D","E","F","G","H","I","J","K","L","M",
           "N","O","P","Q","R","S","T","U","V","W","X","Y","Z">>
LowerOf == <<"a","b","c","d","e","f","g","h","i","j","k","l","m",
             "n","o","p","q","r","s","t","u","v","w","x","y","z">>

LowerChar(c) ==
    IF \E i \in 1..Len(Upper) : Upper[i] = c
    THEN LowerOf[CHOOSE i \in 1..Len(Upper) : Upper[i] = c]
    ELSE c

\* str.lower()
Lower(s) == [i \in 1..Len(s) |-> LowerChar(s[i])]

\* str.endswith(suffix)
EndsWith(s, suffix) ==
    /\ Len(suffix) <= Len(s)
    /\ SubSeq(s, Len(s) - Len(suffix) + 1, Len(s)) = suffix

Digit == <<"0","1","2","3","4","5","6","7","8","9">>

\* str(n) of an int n >= 0
RECURSIVE IntStr(_)
IntStr(n) ==
    IF n < 10 THEN Digit[n + 1] ELSE IntStr(n \div 10) \o Digit[(n % 10) + 1]

\* str(x) of a float x >= 0, x given in hundredths: the shortest decimal text
\* with at least one digit after the point.  (The host stores single
\* precision, so a value such as 0.9 prints more digits there.)
FloatStr(h) ==
    IntStr(h \div 100) \o "." \o
        (IF h % 10 = 0 THEN Digit[((h % 100) \div 10) + 1]
         ELSE Digit[((h % 100) \div 10) + 1] \o Digit[(h % 10) + 1])

\* "TRUE" if b else "FALSE"
BoolStr(b) == IF b THEN "TRUE" ELSE "FALSE"

---------------------------------------------------------------------------
(* MOFProperties: the fields with their defaults.  A float is held in      *)
(* hundredths.                                                             *)

Defaults ==
    [ resolution |-> 1024,
      separate_hard_edges |-> FALSE,
      separate_marked_edges |-> FALSE,
      aspect |-> 100,
      use_normals |-> FALSE,
      udims |-> 1,
      overlap_identical |-> FALSE,
      overlap_mirrored |-> FALSE,
      world_scale |-> FALSE,
      texture_density |-> 1024,
      seam_x |-> 0,
      seam_y |-> 0,
      seam_z |-> 0,
      suppress_validation |-> FALSE,
      quads |-> TRUE,
      flat_soft_surface |-> TRUE,
      cones |-> TRUE,
      cone_ratio |-> 50,
      grids |-> TRUE,
      strips |-> TRUE,
      patches |-> TRUE,
      planes |-> TRUE,
      flatness |-> 90,
      merge |-> TRUE,
      merge_limit |-> 0,
      pre_smooth |-> TRUE,
      soft_unfold |-> TRUE,
      tubes |-> TRUE,
      junctions |-> TRUE,
      extra_debug |-> FALSE,
      angle_based_flattening |-> TRUE,
      smooth |-> TRUE,
      repair_smooth |-> TRUE,
      repair |-> TRUE,
      squares |-> TRUE,
      relax |-> TRUE,
      relax_iterations |-> 50,
      expand |-> 25,
      cut |-> TRUE,
      stretch |-> TRUE,
      match |-> TRUE,
      packing |-> TRUE,
      rasterization |-> 64,
      packing_iterations |-> 4,
      scale_to_fit |-> 50,
      validate |-> FALSE,
      uv_margin |-> 10,
      pixel_padding |-> 2 ]

BoolFields ==
    { "separate_hard_edges", "separate_marked_edges", "use_normals",
      "overlap_identical", "overlap_mirrored", "world_scale", "suppress_validation",
      "quads", "flat_soft_surface", "cones", "grids", "strips", "patches", "planes",
      "merge", "pre_smooth", "soft_unfold", "tubes", "junctions", "extra_debug",
      "angle_based_flattening", "smooth", "repair_smooth", "repair", "squares",
      "relax", "cut", "stretch", "match", "packing", "validate" }

IntFields ==
    { "resolution", "udims", "texture_density", "relax_iterations", "rasterization",
      "packing_iterations", "pixel_padding" }

FloatFields ==
    { "aspect", "seam_x", "seam_y", "seam_z", "cone_ratio", "flatness", "merge_limit",
      "expand", "scale_to_fit", "uv_margin" }

Fields == BoolFields \cup IntFields \cup FloatFields

\* the values a field is given in the model: a bool either way, an int 7
\* or its default, a float 1.5 or its default
FieldValues(f) ==
    IF f \in BoolFields THEN BOOLEAN
    ELSE IF f \in IntFields THEN {7, Defaults[f]}
    ELSE {150, Defaults[f]}

\* p with one field set to any of its values
OneChange(p) ==
    UNION { { [p EXCEPT ![f] = v] : v \in FieldValues(f) } : f \in Fields }

\* the settings that differ from the defaults in at most k fields
RECURSIVE Settings(_)
Settings(k) ==
    IF k = 0 THEN {Defaults} ELSE UNION { OneChange(p) : p \in Settings(k - 1) }

\* every field changed: a bool the other way, an int 7, a float 1.5
AllChanged ==
    [f \in Fields |->
        IF f \in BoolFields THEN ~Defaults[f]
        ELSE IF f \in IntFields THEN 7 ELSE 150]

---------------------------------------------------------------------------
(* The command line of execute. *)

ParamsWeldFromMerge(p) ==
    << <<"-RESOLUTION", IntStr(p.resolution)>>,
       <<"-SEPARATE", BoolStr(p.separate_hard_edges)>>,
       <<"-ASPECT", FloatStr(p.aspect)>>,
       <<"-NORMALS", BoolStr(p.use_normals)>>,
       <<"-UDIMS", IntStr(p.udims)>>,
       <<"-OVERLAP", BoolStr(p.overlap_identical)>>,
       <<"-MIRROR", BoolStr(p.overlap_mirrored)>>,
       <<"-WORLDSCALE", BoolStr(p.world_scale)>>,
       <<"-DENSITY", IntStr(p.texture_density)>>,
       <<"-CENTER", FloatStr(p.seam_x), FloatStr(p.seam_y), FloatStr(p.seam_z)>>,
       <<"-SUPRESS", BoolStr(p.suppress_validation)>>,
       <<"-QUAD", BoolStr(p.quads)>>,
       <<"-WELD", BoolStr(p.merge)>>,
       <<"-FLAT", BoolStr(p.flat_soft_surface)>>,
       <<"-CONE", BoolStr(p.cones)>>,
       <<"-CONERATIO", FloatStr(p.cone_ratio)>>,
       <<"-GRIDS", BoolStr(p.grids)>>,
       <<"-STRIP", BoolStr(p.strips)>>,
       <<"-PATCH", BoolStr(p.patches)>>,
       <<"-PLANES", BoolStr(p.planes)>>,
       <<"-FLATT", FloatStr(p.flatness)>>,
       <<"-MERGE", BoolStr(p.merge)>>,
       <<"-MERGELIMIT", FloatStr(p.merge_limit)>>,
       <<"-PRESMOOTH", BoolStr(p.pre_smooth)>>,
       <<"-SOFTUNFOLD", BoolStr(p.soft_unfold)>>,
       <<"-TUBES", BoolStr(p.tubes)>>,
       <<"-JUNCTIONSDEBUG", BoolStr(p.junctions)>>,
       <<"-EXTRADEBUG", BoolStr(p.extra_debug)>>,
       <<"-ABF", BoolStr(p.angle_based_flattening)>>,
       <<"-SMOOTH", BoolStr(p.smooth)>>,
       <<"-REPAIRSMOOTH", BoolStr(p.repair_smooth)>>,
       <<"-REPAIR", BoolStr(p.repair)>>,
       <<"-SQUARE", BoolStr(p.squares)>>,
       <<"-RELAX", BoolStr(p.relax)>>,
       <<"-RELAX_ITERATIONS", IntStr(p.relax_iterations)>>,
       <<"-EXPAND", FloatStr(p.expand)>>,
       <<"-CUTDEBUG", BoolStr(p.cut)>>,
       <<"-STRETCH", BoolStr(p.stretch)>>,
       <<"-MATCH", BoolStr(p.match)>>,
       <<"-PACKING", BoolStr(p.packing)>>,
       <<"-RASTERIZATION", IntStr(p.rasterization)>>,
       <<"-PACKING_ITERATIONS", IntStr(p.packing_iterations)>>,
       <<"-SCALETOFIT", FloatStr(p.scale_to_fit)>>,
       <<"-VALIDATE", BoolStr(p.validate)>> >>

\* params: one tuple per flag, in the order of the source
Params(p) ==
    << <<"-RESOLUTION", IntStr(p.resolution)>>,
       <<"-SEPARATE", BoolStr(p.separate_hard_edges)>>,
       <<"-ASPECT", FloatStr(p.aspect)>>,
       <<"-NORMALS", BoolStr(p.use_normals)>>,
       <<"-UDIMS", IntStr(p.udims)>>,
       <<"-OVERLAP", BoolStr(p.overlap_identical)>>,
       <<"-MIRROR", BoolStr(p.overlap_mirrored)>>,
       <<"-WORLDSCALE", BoolStr(p.world_scale)>>,
       <<"-DENSITY", IntStr(p.texture_density)>>,
       <<"-CENTER", FloatStr(p.seam_x), FloatStr(p.seam_y), FloatStr(p.seam_z)>>,
       <<"-SUPRESS", BoolStr(p.suppress_validation)>>,
       <<"-QUAD", BoolStr(p.quads)>>,
       <<"-WELD", "FALSE">>,
       <<"-FLAT", BoolStr(p.flat_soft_surface)>>,
       <<"-CONE", BoolStr(p.cones)>>,
       <<"-CONERATIO", FloatStr(p.cone_ratio)>>,
       <<"-GRIDS", BoolStr(p.grids)>>,
       <<"-STRIP", BoolStr(p.strips)>>,
       <<"-PATCH", BoolStr(p.patches)>>,
       <<"-PLANES", BoolStr(p.planes)>>,
       <<"-FLATT", FloatStr(p.flatness)>>,
       <<"-MERGE", BoolStr(p.merge)>>,
       <<"-MERGELIMIT", FloatStr(p.merge_limit)>>,
       <<"-PRESMOOTH", BoolStr(p.pre_smooth)>>,
       <<"-SOFTUNFOLD", BoolStr(p.soft_unfold)>>,
       <<"-TUBES", BoolStr(p.tubes)>>,
       <<"-JUNCTIONSDEBUG", BoolStr(p.junctions)>>,
       <<"-EXTRADEBUG", BoolStr(p.extra_debug)>>,
       <<"-ABF", BoolStr(p.angle_based_flattening)>>,
       <<"-SMOOTH", BoolStr(p.smooth)>>,
       <<"-REPAIRSMOOTH", BoolStr(p.repair_smooth)>>,
       <<"-REPAIR", BoolStr(p.repair)>>,
       <<"-SQUARE", BoolStr(p.squares)>>,
       <<"-RELAX", BoolStr(p.relax)>>,
       <<"-RELAX_ITERATIONS", IntStr(p.relax_iterations)>>,
       <<"-EXPAND", FloatStr(p.expand)>>,
       <<"-CUTDEBUG", BoolStr(p.cut)>>,
       <<"-STRETCH", BoolStr(p.stretch)>>,
       <<"-MATCH", BoolStr(p.match)>>,
       <<"-PACKING", BoolStr(p.packing)>>,
       <<"-RASTERIZATION", IntStr(p.rasterization)>>,
       <<"-PACKING_ITERATIONS", IntStr(p.packing_iterations)>>,
       <<"-SCALETOFIT", FloatStr(p.scale_to_fit)>>,
       <<"-VALIDATE", BoolStr(p.validate)>> >>

\* for tup in params: cmd.extend(tup)
RECURSIVE Extend(_, _)
Extend(c, tups) ==
    IF tups = << >> THEN c ELSE Extend(c \o Head(tups), Tail(tups))

\* cmd = [exe, in_path, out_path] + the flags
BuildCmd(exe, in_path, out_path, p) ==
    Extend(<<exe, in_path, out_path>>, Params(p))

---------------------------------------------------------------------------
(* Numbers of the uv pass: a rational <<n, d>> with d > 0, in lowest terms *)
(* (the source computes in floating point; the model computes exactly).    *)

Abs(n) == IF n < 0 THEN -n ELSE n

RECURSIVE Gcd(_, _)
Gcd(a, b) == IF b = 0 THEN a ELSE Gcd(b, a % b)

Rat(n, d) ==
    LET g == Gcd(Abs(n), Abs(d))
        sgn == IF d < 0 THEN -1 ELSE 1
    IN  << (sgn * n) \div g, (sgn * d) \div g >>

RAdd(a, b) == Rat(a[1] * b[2] + b[1] * a[2], a[2] * b[2])
RSub(a, b) == Rat(a[1] * b[2] - b[1] * a[2], a[2] * b[2])
RMul(a, b) == Rat(a[1] * b[1], a[2] * b[2])
RDiv(a, b) == Rat(a[1] * b[2], a[2] * b[1])
RLess(a, b) == a[1] * b[2] < b[1] * a[2]
RLeq(a, b) == a[1] * b[2] <= b[1] * a[2]
Zero == Rat(0, 1)
One == Rat(1, 1)
Two == Rat(2, 1)

\* the least and the greatest of a non-empty set of rationals
RMin(S) == CHOOSE x \in S : \A y \in S : RLeq(x, y)
RMax(S) == CHOOSE x \in S : \A y \in S : RLeq(y, x)

\* the u (k = 1) or v (k = 2) coordinates of a layer
Coords(layer, k) == { layer[i][k] : i \in 1..Len(layer) }

\* range_u > 0 and range_v > 0; an empty layer has range -inf
HasExtent(layer) ==
    /\ Len(layer) > 0
    /\ RLess(RMin(Coords(layer, 1)), RMax(Coords(layer, 1)))
    /\ RLess(RMin(Coords(layer, 2)), RMax(Coords(layer, 2)))

\* padding + ((c - min) / range) * (1 - 2 * padding)
ScaleNoPadding(c, lo, hi, padding) ==
    RDiv(RSub(c, lo), RSub(hi, lo))
Scale(c, lo, hi, padding) ==
    RAdd(padding,
         RMul(RDiv(RSub(c, lo), RSub(hi, lo)), RSub(One, RMul(Two, padding))))

\* p.pixel_padding / p.resolution raises ZeroDivisionError
PaddingRaises(layer, p) == HasExtent(layer) /\ p.resolution = 0

\* the pass over the active uv layer, where it does not raise
NormalizeUV(layer, p) ==
    IF ~HasExtent(layer) THEN layer
    ELSE LET padding == Rat(p.pixel_padding, p.resolution)
             min_u == RMin(Coords(layer, 1))
             max_u == RMax(Coords(layer, 1))
             min_v == RMin(Coords(layer, 2))
             max_v == RMax(Coords(layer, 2))
         IN  [i \in 1..Len(layer) |->
                 << Scale(layer[i][1], min_u, max_u, padding),
                    Scale(layer[i][2], min_v, max_v, padding) >>]

\* the uv points and layouts the external tool may write for n face corners
UVPoints == { <<Rat(a, 1), Rat(b, 1)>> : a \in 0..MaxUV, b \in 0..MaxUV }
Layouts(n) == [1..n -> UVPoints]

---------------------------------------------------------------------------
(* Objects and files.  An object name and a file path in bpy.app.tempdir   *)
(* are sequences of pieces of text.                                        *)

NoObject == << >>
MeshA == <<"A">>
MeshB == <<"B", " ", "1">>
Light == <<"L">>

\* original_obj.name + "_temp"
TempName(name) == name \o <<"_temp">>

\* the name the import gives the object read from the file: the name in the
\* file is taken by the temporary object
ImportedName(temp_name) == temp_name \o <<".001">>

\* temp_obj.name.replace(" ", "_")
NameSafe(name) == [i \in 1..Len(name) |-> IF name[i] = " " THEN "_" ELSE name[i]]

InPath(temp_name) == NameSafe(temp_name) \o <<".obj">>
OutPath(temp_name) == NameSafe(temp_name) \o <<"_unwrapped.obj">>

\* f with key k mapped to v
Put(f, k, v) == [x \in (DOMAIN f) \cup {k} |-> IF x = k THEN v ELSE f[x]]
\* f without key k
Drop(f, k) == [x \in (DOMAIN f) \ {k} |-> f[x]]

---------------------------------------------------------------------------
(* The zip archive and the search for the executable. *)

ExeName == <<"u","n","w","r","a","p","c","o","n","s","o","l","e","3",".","e","x","e">>
DotExe == <<".","e","x","e">>

\* the entries an archive of the model is made of
EntryExact == <<"U","n","W","r","a","p","C","o","n","s","o","l","e","3",".","e","x","e">>
EntrySuffix == <<"b","i","n","/","x">> \o ExeName
EntryOther == <<"t","o","o","l",".","E","X","E">>
EntryDir == <<"b","i","n","/">> \o ExeName \o <<"/">>
ZipEntries == {EntryExact, EntrySuffix, EntryOther, EntryDir}

\* file.endswith("/")
IsDirEntry(e) == Len(e) > 0 /\ e[Len(e)] = "/"

\* the directory part of an entry, with its last "/", and the file name
Slashes(e) == { i \in 1..Len(e) : e[i] = "/" }
LastSlash(e) == IF Slashes(e) = {} THEN 0
                ELSE CHOOSE i \in Slashes(e) : \A j \in Slashes(e) : j <= i
DirOf(e) == SubSeq(e, 1, LastSlash(e))
BaseOf(e) == SubSeq(e, LastSlash(e) + 1, Len(e))

\* the directories extractall makes under extract_path, the top one as << >>
DirsOf(names) ==
    {<< >>} \cup UNION { { SubSeq(e, 1, i) : i \in Slashes(e) } : e \in names }

\* c is a directory directly in d
IsChild(c, d) ==
    /\ Len(c) > Len(d)
    /\ SubSeq(c, 1, Len(d)) = d
    /\ \A i \in (Len(d) + 1)..(Len(c) - 1) : c[i] # "/"

\* the inner loop of the search on "nt" in directory d: the candidates it
\* can end with, over the orders in which os.walk may list the files
InnerLoopExactOnly(names, d) ==
    LET here == { e \in names : ~IsDirEntry(e) /\ DirOf(e) = d }
    IN  { e \in here : Lower(BaseOf(e)) = ExeName }
InnerLoop(names, d) ==
    LET here == { e \in names : ~IsDirEntry(e) /\ DirOf(e) = d }
        exact == { e \in here : Lower(BaseOf(e)) = ExeName }
    IN  IF exact # {} THEN exact
        ELSE { e \in here : EndsWith(Lower(BaseOf(e)), DotExe) }

\* os.walk from d, top down, stopping at the first directory with a
\* candidate
RECURSIVE Walk(_, _)
Walk(names, d) ==
    IF InnerLoop(names, d) # {} THEN InnerLoop(names, d)
    ELSE UNION { Walk(names, c) : c \in { c \in DirsOf(names) : IsChild(c, d) } }

\* the values exe can have after the search, << >> for None.  Elsewhere
\* than on "nt" the first file with os.access(X_OK) is taken: any file or
\* none, as extractall sets no permissions the search can rely on.
NoExe == << >>
ExeChoices(plat, names) ==
    IF plat = "nt"
    THEN IF Walk(names, << >>) = {} THEN {NoExe} ELSE Walk(names, << >>)
    ELSE {NoExe} \cup { e \in names : ~IsDirEntry(e) }

\* poll's test of the archive
Found(names) ==
    \E file \in names : ~IsDirEntry(file) /\ EndsWith(Lower(file), ExeName)

---------------------------------------------------------------------------
(* The scene and the disk as one record, for the steps of execute. *)

Scene ==
    [ objects |-> objects, otype |-> otype, selected |-> selected,
      active |-> active, mode |-> mode, matrix_world |-> matrix_world,
      uv |-> uv, extract_dirs |-> extract_dirs, files |-> files,
      timers |-> timers ]

\* bpy.data.objects.remove(obj, do_unlink=True)
RemoveObject(s, o) ==
    [ s EXCEPT !.objects = @ \ {o},
               !.otype = Drop(@, o),
               !.matrix_world = Drop(@, o),
               !.uv = Drop(@, o),
               !.selected = @ \ {o},
               !.active = IF @ = o THEN NoObject ELSE @ ]

\* a new object linked to the scene
AddObject(s, o, type, matrix, layer) ==
    [ s EXCEPT !.objects = @ \cup {o},
               !.otype = Put(@, o, type),
               !.matrix_world = Put(@, o, matrix),
               !.uv = Put(@, o, layer) ]

\* [obj for obj in context.selected_objects if obj.type == 'MESH']
SelectedObjectsOfAnyType(sel, types) == sel
SelectedMeshes(sel, types) == { o \in sel : types[o] = "MESH" }

MsgSelect == "Please select exactly one mesh object"
MsgNoZip == "Zip file not found"
MsgExtract == "Failed to extract zip file"
MsgNoExe == "No executable found in the zip file"
MsgExport == "Export failed"
MsgToolFailed == "External tool failed"
MsgToolError == "Error running tool"
MsgImport == "Import failed"
MsgComplete == "UV Unwrapping complete for the selected mesh object"
MsgZeroDivision == "ZeroDivisionError"

\* nothing returned yet
NoRet ==
    [ result |-> "NONE", message |-> "", original |-> NoObject,
      cmd |-> << >>, split |-> "none", made_dir |-> FALSE, made_files |-> {},
      imported |-> "none", layout |-> << >> ]

NoPre ==
    [ objects |-> {}, selected |-> {}, active |-> NoObject, mode |-> "OBJECT",
      otype |-> << >>, matrix_world |-> << >>, uv |-> << >>,
      extract_dirs |-> 0, files |-> {}, polled |-> FALSE ]

\* what the last steps of execute use of the first ones
NoCtx ==
    [ orig |-> NoObject, orig_matrix |-> "Identity", previous_mode |-> "OBJECT",
      in_path |-> << >>, out_path |-> << >> ]

\* self.report({'ERROR'}, msg); return {"CANCELLED"}
Cancelled(s, r, msg) ==
    [ scene |-> s, ret |-> [r EXCEPT !.result = "CANCELLED", !.message = msg],
      mesh |-> FALSE, ctx |-> NoCtx ]

---------------------------------------------------------------------------
(* AutoUVOperator.poll *)

PollValue ==
    IF platform # "nt" THEN FALSE
    ELSE IF Cardinality(SelectedMeshes(selected, otype)) # 1 THEN FALSE
    ELSE IF ~path_set \/ ~zip_exists THEN FALSE
    ELSE IF ~zip_valid THEN FALSE
    ELSE Found(zip_names)

Poll ==
    /\ polled' = IF PollValue THEN "true" ELSE "false"
    /\ last' = "poll"
    /\ UNCHANGED << platform, objects, otype, selected, active, mode,
                    matrix_world, uv, seams, path_set, zip_exists, zip_valid,
                    zip_names, extract_dirs, files, timers, props, ret, pre >>

---------------------------------------------------------------------------
(* AutoUVOperator.execute, from its last steps to its first.  Each step    *)
(* gives the set of outcomes [scene, ret, mesh, ctx] of the call: where it  *)
(* ends, or, with mesh set, where the import has brought a mesh and the    *)
(* data transfer follows.                                                  *)

\* lines 632-653: restore the transform, delete the files and the extracted
\* directory, restore the mode
Finish(s, r, c) ==
    [ scene |-> [ s EXCEPT !.matrix_world = Put(@, c.orig, c.orig_matrix),
                           !.files = @ \ {c.in_path, c.out_path},
                           !.extract_dirs = @ - 1,
                           !.mode = c.previous_mode ],
      ret |-> [ r EXCEPT !.result = "FINISHED", !.message = MsgComplete ],
      mesh |-> FALSE, ctx |-> NoCtx ]

\* lines 596-630, the imported object being a mesh with the uv layout
\* `layout`: the data transfer onto the original, the removal of the
\* imported object, the uv pass
Transfer(s, r, c, p, layout) ==
    LET s1 == [ s EXCEPT !.selected = {},
                         !.active = c.orig,
                         !.mode = "OBJECT",
                         !.uv = Put(@, c.orig, layout) ]
        r1 == [ r EXCEPT !.imported = "mesh", !.layout = layout ]
    IN  IF PaddingRaises(layout, p)
        THEN [ scene |-> s1,
               ret |-> [ r1 EXCEPT !.result = "RAISED",
                                   !.message = MsgZeroDivision ],
               mesh |-> FALSE, ctx |-> NoCtx ]
        ELSE Finish([ s1 EXCEPT !.uv = Put(@, c.orig, NormalizeUV(layout, p)) ],
                    r1, c)

\* lines 590-598 and 629-630: the import, which raises, or brings an object
\* that is no mesh, or brings a mesh
Import(s, r, orig, temp, orig_matrix, previous_mode, in_path, out_path, p) ==
    IF out_path \notin s.files
    THEN { Cancelled(s, r, MsgImport) }
    ELSE { Cancelled(s, r, MsgImport) }
         \cup
         { Finish([ AddObject(s, ImportedName(temp), "CURVE", "Identity", << >>)
                      EXCEPT !.selected = {ImportedName(temp)},
                             !.active = ImportedName(temp) ],
                  [ r EXCEPT !.imported = "nonmesh" ],
                  [ orig |-> orig, orig_matrix |-> orig_matrix,
                    previous_mode |-> previous_mode,
                    in_path |-> in_path, out_path |-> out_path ]) }
         \cup
         { [ scene |-> s, ret |-> r, mesh |-> TRUE,
             ctx |-> [ orig |-> orig, orig_matrix |-> orig_matrix,
                       previous_mode |-> previous_mode,
                       in_path |-> in_path, out_path |-> out_path ] ] }

\* lines 530-589: the command line and the subprocess, which raises, or
\* ends with exit code 0 or not, having written the output file or not
RunTool(s, r, orig, temp, orig_matrix, previous_mode, exe, p) ==
    LET in_path == InPath(temp)
        out_path == OutPath(temp)
        r1 == [ r EXCEPT !.cmd = BuildCmd(exe, in_path, out_path, p) ]
        After(wrote) ==
            [ s |-> IF wrote THEN [ s EXCEPT !.files = @ \cup {out_path} ] ELSE s,
              r |-> IF wrote THEN [ r1 EXCEPT !.made_files = @ \cup {out_path} ]
                    ELSE r1 ]
    IN  { Cancelled(s, r1, MsgToolError) }
        \cup
        UNION { IF returncode # 0 /\ out_path \notin a.s.files
                THEN { Cancelled(a.s, a.r, MsgToolFailed) }
                ELSE Import(a.s, a.r, orig, temp, orig_matrix, previous_mode,
                            in_path, out_path, p)
                : returncode \in {0, 1}, a \in { After(wrote) : wrote \in BOOLEAN } }

\* lines 470-528: the temporary copy, the seam split, the selection, the
\* export, which raises or writes the input file, and the timer
Export(s, r, orig, previous_mode, exe, p) ==
    LET orig_matrix == s.matrix_world[orig]
        temp == TempName(orig)
        s1 == IF temp \in s.objects THEN RemoveObject(s, temp) ELSE s
        s2 == [ AddObject(s1, temp, s1.otype[orig], "Identity", s1.uv[orig])
                  EXCEPT !.matrix_world = Put(@, orig, "Identity") ]
        done == IF seams = "none" THEN "none"
                ELSE IF p.separate_marked_edges THEN "marked"
                ELSE IF p.separate_hard_edges /\ seams = "sharp" THEN "hard"
                ELSE "none"
        s3 == [ s2 EXCEPT !.selected = {temp},
                          !.active = temp,
                          !.timers = @ \cup {temp} ]
        r1 == [ r EXCEPT !.split = done ]
    IN  { Cancelled(s3, r1, MsgExport) }
        \cup
        RunTool([ s3 EXCEPT !.files = @ \cup {InPath(temp)} ],
                [ r1 EXCEPT !.made_files = @ \cup {InPath(temp)} ],
                orig, temp, orig_matrix, previous_mode, exe, p)

\* lines 445-468: the search for the executable in the extracted files
Search(s, r, orig, previous_mode, p) ==
    UNION { IF exe = NoExe
            THEN { Cancelled([ s EXCEPT !.extract_dirs = @ - 1 ], r, MsgNoExe) }
            ELSE Export(s, r, orig, previous_mode, exe, p)
            : exe \in ExeChoices(platform, zip_names) }

\* lines 420-444: the mode, the selection, the zip file and its extraction
Outcomes ==
    LET previous_mode == IF active # NoObject THEN mode ELSE "OBJECT"
        s0 == [ Scene EXCEPT !.mode = "OBJECT" ]
        selected_objs == SelectedMeshes(selected, otype)
    IN  IF Cardinality(selected_objs) # 1
        THEN { Cancelled(s0, NoRet, MsgSelect) }
        ELSE LET original_obj == CHOOSE o \in selected_objs : TRUE
                 r0 == [ NoRet EXCEPT !.original = original_obj ]
             IN  IF ~zip_exists
                 THEN { Cancelled(s0, r0, MsgNoZip) }
                 ELSE LET s1 == [ s0 EXCEPT !.extract_dirs = @ + 1 ]
                          r1 == [ r0 EXCEPT !.made_dir = TRUE ]
                      IN  IF ~zip_valid
                          THEN { Cancelled(s1, r1, MsgExtract) }
                          ELSE Search(s1, r1, original_obj, previous_mode, props)

\* one call of execute; the model follows one call in each behaviour
Execute ==
    /\ ret.result = "NONE"
    /\ \E o \in Outcomes :
       \E layout \in IF o.mesh THEN Layouts(Len(o.scene.uv[o.ctx.orig]))
                      ELSE {<< >>} :
       \E out \in {IF o.mesh THEN Transfer(o.scene, o.ret, o.ctx, props, layout)
                    ELSE o} :
          /\ objects' = out.scene.objects
          /\ otype' = out.scene.otype
          /\ selected' = out.scene.selected
          /\ active' = out.scene.active
          /\ mode' = out.scene.mode
          /\ matrix_world' = out.scene.matrix_world
          /\ uv' = out.scene.uv
          /\ extract_dirs' = out.scene.extract_dirs
          /\ files' = out.scene.files
          /\ timers' = out.scene.timers
          /\ ret' = out.ret
    /\ pre' = [ objects |-> objects, selected |-> selected, active |-> active,
                mode |-> mode, otype |-> otype, matrix_world |-> matrix_world,
                uv |-> uv, extract_dirs |-> extract_dirs, files |-> files,
                polled |-> PollValue ]
    /\ polled' = "none"
    /\ last' = "execute"
    /\ UNCHANGED << platform, seams, path_set, zip_exists, zip_valid, zip_names,
                    props >>

---------------------------------------------------------------------------
(* remove_temp, run by the timer execute registered *)

remove_temp ==
    /\ \E temp_obj \in timers :
          LET s == IF temp_obj \in objects THEN RemoveObject(Scene, temp_obj)
                   ELSE Scene
          IN  /\ objects' = s.objects
              /\ otype' = s.otype
              /\ selected' = s.selected
              /\ active' = s.active
              /\ matrix_world' = s.matrix_world
              /\ uv' = s.uv
              /\ timers' = timers \ {temp_obj}
    /\ polled' = "none"
    /\ last' = "remove_temp"
    /\ UNCHANGED << platform, mode, seams, path_set, zip_exists, zip_valid,
                    zip_names, extract_dirs, files, props, ret, pre >>

---------------------------------------------------------------------------
(* The states execute and poll are called in. *)

BaseObjects == {MeshA, MeshB, Light}
BaseType == [o \in BaseObjects |-> IF o = Light THEN "LIGHT" ELSE "MESH"]

\* a uv layer of n face corners, all at the origin
ZeroLayer(n) == [i \in 1..n |-> <<Zero, Zero>>]

\* the preferences and the zip file they name: no path, a path to no file,
\* a file that is no archive, an archive of some of ZipEntries
ZipStates ==
    { [path_set |-> FALSE, exists |-> FALSE, valid |-> FALSE, names |-> {}],
      [path_set |-> TRUE, exists |-> FALSE, valid |-> FALSE, names |-> {}],
      [path_set |-> TRUE, exists |-> TRUE, valid |-> FALSE, names |-> {}] }
    \cup
    { [path_set |-> TRUE, exists |-> TRUE, valid |-> TRUE, names |-> n] :
        n \in SUBSET ZipEntries }

\* an archive with the executable at its top
GoodZip ==
    [path_set |-> TRUE, exists |-> TRUE, valid |-> TRUE,
     names |-> {EntryExact, EntryOther}]

\* nothing has run
Fresh ==
    /\ extract_dirs = 0
    /\ timers = {}
    /\ polled = "none"
    /\ ret = NoRet
    /\ pre = NoPre
    /\ last = "none"

\* the scene, the preferences and the disk vary; the settings are the
\* defaults
Init ==
    /\ platform \in {"nt", "posix"}
    /\ objects = BaseObjects
    /\ otype = BaseType
    /\ selected \in SUBSET BaseObjects
    /\ active \in {NoObject, MeshA, MeshB}
    /\ mode \in IF active = NoObject THEN {"OBJECT"} ELSE {"OBJECT", "EDIT"}
    /\ matrix_world = [o \in BaseObjects |-> IF o = MeshA THEN "Moved" ELSE "Identity"]
    /\ uv = [o \in BaseObjects |-> IF o = Light THEN << >> ELSE ZeroLayer(1)]
    /\ seams = "sharp"
    /\ \E z \in ZipStates :
          /\ path_set = z.path_set
          /\ zip_exists = z.exists
          /\ zip_valid = z.valid
          /\ zip_names = z.names
    /\ files \in { {}, {OutPath(TempName(MeshA))} }
    /\ props = Defaults
    /\ Fresh

\* one mesh selected on "nt" with a good archive
GoodScene ==
    /\ platform = "nt"
    /\ objects = BaseObjects
    /\ otype = BaseType
    /\ selected = {MeshA, Light}
    /\ active = MeshA
    /\ mode = "EDIT"
    /\ matrix_world = [o \in BaseObjects |-> IF o = MeshA THEN "Moved" ELSE "Identity"]
    /\ path_set = GoodZip.path_set
    /\ zip_exists = GoodZip.exists
    /\ zip_valid = GoodZip.valid
    /\ zip_names = GoodZip.names
    /\ files = {}
    /\ Fresh

\* the settings and the seams vary
InitCmd ==
    /\ GoodScene
    /\ uv = [o \in BaseObjects |-> << >>]
    /\ seams \in {"none", "smooth", "sharp"}
    /\ props \in Settings(MaxChanged) \cup {AllChanged}

\* the number of face corners, the resolution and the pixel padding vary
InitUV ==
    /\ GoodScene
    /\ \E n \in 0..MaxLoops :
          uv = [o \in BaseObjects |-> IF o = MeshA THEN ZeroLayer(n) ELSE << >>]
    /\ seams = "none"
    /\ \E res \in {0, 4, 1024}, pad \in {0, 1, 2, 3} :
          props = [Defaults EXCEPT !.resolution = res, !.pixel_padding = pad]

Next == Poll \/ Execute \/ remove_temp

Spec == Init /\ [][Next]_vars
SpecCmd == InitCmd /\ [][Next]_vars
SpecUV == InitUV /\ [][Next]_vars

---------------------------------------------------------------------------
(* The claims.  Returned says that execute has just returned, so that the  *)
(* state is the one it left.                                               *)

Returned == last = "execute" /\ ret.result \in {"FINISHED", "CANCELLED"}

\* the number of selected objects of type MESH when execute was called
MeshesSelectedBefore ==
    Cardinality({ o \in pre.selected : pre.otype[o] = "MESH" })

\* C1: whenever execute returns, with FINISHED or with CANCELLED, the
\* interaction mode is the mode the active object had when execute was called.
C1_ModeRestored ==
    Returned => mode = pre.mode

\* C2: whenever execute returns, nothing it created on disk remains: the
\* directory the zip was extracted into, the exported input OBJ file and the
\* tool's output OBJ file are deleted.
C2_TemporaryFilesCleaned ==
    Returned =>
        /\ ret.made_dir => extract_dirs = pre.extract_dirs
        /\ ret.made_files \cap files = {}

\* C3: if the number of selected MESH objects is not exactly one, execute
\* reports "Please select exactly one mesh object" and returns CANCELLED
\* without extracting the zip, creating a temporary object, running the
\* external tool, or changing a world transform, the selection or uv data.
C3_ExactlyOneMesh ==
    (last = "execute" /\ MeshesSelectedBefore # 1) =>
        /\ ret.result = "CANCELLED"
        /\ ret.message = "Please select exactly one mesh object"
        /\ ~ret.made_dir
        /\ extract_dirs = pre.extract_dirs
        /\ files = pre.files
        /\ objects = pre.objects
        /\ timers = {}
        /\ ret.cmd = << >>
        /\ matrix_world = pre.matrix_world
        /\ selected = pre.selected
        /\ uv = pre.uv

\* C3 witness: execute was called in edit mode with two meshes and the light
\* selected, and has returned.
C3_Witness ==
    /\ last = "execute"
    /\ MeshesSelectedBefore = 2
    /\ Light \in pre.selected
    /\ pre.mode = "EDIT"
    /\ zip_valid
    /\ ret.result = "CANCELLED"

\* C4: after execute returns, with any result, the original object's world
\* transform is the one it had before the call.
C4_TransformRestored ==
    (Returned /\ ret.original # NoObject) =>
        matrix_world[ret.original] = pre.matrix_world[ret.original]

\* C5: every field of the settings group is a parameter of the external
\* tool: changing any one field alone changes the argument list execute
\* passes to the subprocess.
C5_EveryFieldInCommand ==
    (last = "execute" /\ ret.cmd # << >>) =>
        \A f \in Fields :
            \A v \in FieldValues(f) \ {props[f]} :
                BuildCmd(ret.cmd[1], ret.cmd[2], ret.cmd[3],
                         [props EXCEPT ![f] = v]) # ret.cmd

\* C6: poll returns true exactly when the platform is Windows, exactly one
\* selected object is a mesh, the zip path is set and the file exists, and
\* the archive opens and has a non-directory entry whose lower-cased name
\* ends with "unwrapconsole3.exe"; and where poll is true, execute does not
\* cancel for the selection, the missing zip file or the missing executable.
C6_Poll ==
    /\ last = "poll" =>
          ( polled = "true" <=>
              /\ platform = "nt"
              /\ Cardinality({ o \in selected : otype[o] = "MESH" }) = 1
              /\ path_set
              /\ zip_exists
              /\ zip_valid
              /\ \E e \in zip_names :
                    e[Len(e)] # "/" /\ EndsWith(Lower(e), ExeName) )
    /\ (last = "execute" /\ pre.polled) =>
          ret.message \notin { "Please select exactly one mesh object",
                               "Zip file not found",
                               "No executable found in the zip file" }

\* C6 witness: poll is true for an archive whose only executable is
\* bin/xunwrapconsole3.exe, and execute has run the tool with it.
C6_Witness ==
    /\ last = "execute"
    /\ pre.polled
    /\ zip_names = {EntrySuffix, EntryDir}
    /\ ret.cmd # << >>
    /\ ret.cmd[1] = EntrySuffix

\* the least and the greatest of a non-empty set of integers
IntMin(S) == CHOOSE x \in S : \A y \in S : x <= y
IntMax(S) == CHOOSE x \in S : \A y \in S : y <= x

\* the whole-number coordinates, u (k = 1) or v (k = 2), the tool wrote
Written(k) == { ret.layout[i][k][1] : i \in 1..Len(ret.layout) }

\* the layout the tool wrote has positive extent on both axes
WrittenHasExtent ==
    /\ Len(ret.layout) > 0
    /\ IntMin(Written(1)) < IntMax(Written(1))
    /\ IntMin(Written(2)) < IntMax(Written(2))

FlagOrder ==
    << "-RESOLUTION", "-SEPARATE", "-ASPECT", "-NORMALS", "-UDIMS", "-OVERLAP",
       "-MIRROR", "-WORLDSCALE", "-DENSITY", "-CENTER", "-SUPRESS", "-QUAD",
       "-WELD", "-FLAT", "-CONE", "-CONERATIO", "-GRIDS", "-STRIP", "-PATCH",
       "-PLANES", "-FLATT", "-MERGE", "-MERGELIMIT", "-PRESMOOTH", "-SOFTUNFOLD",
       "-TUBES", "-JUNCTIONSDEBUG", "-EXTRADEBUG", "-ABF", "-SMOOTH",
       "-REPAIRSMOOTH", "-REPAIR", "-SQUARE", "-RELAX", "-RELAX_ITERATIONS",
       "-EXPAND", "-CUTDEBUG", "-STRETCH", "-MATCH", "-PACKING",
       "-RASTERIZATION", "-PACKING_ITERATIONS", "-SCALETOFIT", "-VALIDATE" >>

\* the flags of the numbers
NumberFlags ==
    { "-RESOLUTION", "-ASPECT", "-UDIMS", "-DENSITY", "-CENTER", "-CONERATIO",
      "-FLATT", "-MERGELIMIT", "-RELAX_ITERATIONS", "-EXPAND", "-RASTERIZATION",
      "-PACKING_ITERATIONS", "-SCALETOFIT" }

\* where flag number k stands in the argument list: after the three paths,
\* each flag before it with one value, -CENTER with three
FlagAt(k) ==
    LET center == CHOOSE j \in 1..Len(FlagOrder) : FlagOrder[j] = "-CENTER"
    IN  3 + 2 * (k - 1) + (IF k > center THEN 2 ELSE 0) + 1

\* C8: the argument list is the executable path, the input OBJ path and the
\* output OBJ path, then the flags in a fixed order, each boolean setting as
\* "TRUE" or "FALSE" and -CENTER with three values; "-WELD" is always there,
\* followed by "FALSE", whatever the settings.
C8_CommandLine ==
    (last = "execute" /\ ret.cmd # << >>) =>
        LET c == ret.cmd
            n == Len(FlagOrder)
        IN  /\ Len(c) = 3 + 2 * n + 2
            /\ c[1] \in zip_names
            /\ c[2] = NameSafe(TempName(ret.original)) \o <<".obj">>
            /\ c[3] = NameSafe(TempName(ret.original)) \o <<"_unwrapped.obj">>
            /\ \A k \in 1..n :
                  /\ c[FlagAt(k)] = FlagOrder[k]
                  /\ FlagOrder[k] \notin NumberFlags =>
                        c[FlagAt(k) + 1] \in {"TRUE", "FALSE"}
            /\ \E i \in 4..(Len(c) - 1) : c[i] = "-WELD" /\ c[i + 1] = "FALSE"

\* C8 witness: the tool was run with every setting changed from its default.
C8_Witness ==
    /\ last = "execute"
    /\ ret.cmd # << >>
    /\ props = AllChanged

====
